---------------------------- MODULE Spec2Model ----------------------------
(***************************************************************************)
(* A model of siamik_dashboard.py: the two cached CSV loaders, the schema  *)
(* normalizer prepare_transformed, and the script body that Streamlit      *)
(* re-executes from top to bottom on every interaction (sidebar filters,   *)
(* quick statistics, export, and the five tabs).                           *)
(*                                                                         *)
(* Text.  A column name or a text cell is a sequence of segments; the      *)
(* segments are cut at the boundaries of every pattern the script tests    *)
(* (prefixes, keywords, separators), so that startswith, `in`, lower and   *)
(* replace are computed on the sequence exactly as Python computes them    *)
(* on the characters.                                                      *)
(*                                                                         *)
(* Cells.  A cell is a record [t, n, s]: t is the Python type of the value *)
(* ("int", "bool", "str", "nan" for a missing float, "none" for None),     *)
(* n its number (0/1 for a bool) and s its text.                           *)
(*                                                                         *)
(* Tables.  A DataFrame is [kind, cols, rows]: cols is the ordered list of *)
(* column names, rows the ordered list of rows, rows[i][j] the cell of     *)
(* column cols[j].                                                         *)
(***************************************************************************)
EXTENDS Integers, Sequences, FiniteSets, TLC

\* ------------------------------------------------------------------ bounds
\* Largest number of data rows of a table given to prepare_transformed.
MaxRows == 2

\* ------------------------------------------------------------------- text
LowerSeg(s) ==
    CASE s = "Fakultas"      -> "fakultas"
      [] s = "FAKULTAS"      -> "fakultas"
      [] s = "Faculty"       -> "faculty"
      [] s = "Prodi"         -> "prodi"
      [] s = "PRODI"         -> "prodi"
      [] s = "Study"         -> "study"
      [] s = "Masalah utama" -> "masalah utama"
      [] s = "Prioritas"     -> "prioritas"
      [] s = "Improvement"   -> "improvement"
      [] s = "Jika diberikan" -> "jika diberikan"
      [] s = " yang paling sering Anda alami saat war KRS?"
                             -> " yang paling sering anda alami saat war krs?"
      [] s = " untuk diperbaiki pada SIAMIK?"
                             -> " untuk diperbaiki pada siamik?"
      [] s = "Catatan"       -> "catatan"
      [] s = "Teknik"        -> "teknik"
      [] s = "Hukum"         -> "hukum"
      [] s = "Informatika"   -> "informatika"
      [] s = "Sipil"         -> "sipil"
      [] s = "Server lambat" -> "server lambat"
      [] s = "Slot penuh"    -> "slot penuh"
      [] s = "Kecepatan server" -> "kecepatan server"
      [] s = "Notifikasi"    -> "notifikasi"
      [] s = "Unknown"       -> "unknown"
      [] s = "All"           -> "all"
      [] s = "Ya"            -> "ya"
      [] s = "Tidak"         -> "tidak"
      [] s = "Yes"           -> "yes"
      [] s = "YES"           -> "yes"
      [] s = "Y"             -> "y"
      [] s = "No"            -> "no"
      [] s = "True"          -> "true"
      [] s = "TRUE"          -> "true"
      [] s = "False"         -> "false"
      [] s = "FALSE"         -> "false"
      [] OTHER               -> s

\* str.lower()
Lower(name) == [i \in 1..Len(name) |-> LowerSeg(name[i])]

\* str.startswith(pat)
StartsWith(name, pat) ==
    /\ Len(pat) <= Len(name)
    /\ SubSeq(name, 1, Len(pat)) = pat

\* pat in name
Contains(name, pat) ==
    \E i \in 1..(Len(name) - Len(pat) + 1) : SubSeq(name, i, i + Len(pat) - 1) = pat

\* str.replace(pat, ''): every occurrence of pat, left to right, is removed
RECURSIVE Replace(_, _)
Replace(name, pat) ==
    IF name = <<>> THEN <<>>
    ELSE IF StartsWith(name, pat)
         THEN Replace(SubSeq(name, Len(pat) + 1, Len(name)), pat)
         ELSE <<Head(name)>> \o Replace(Tail(name), pat)

\* ------------------------------------------------------------------ cells
IntCell(k)  == [t |-> "int",  n |-> k, s |-> <<>>]
BoolCell(b) == [t |-> "bool", n |-> IF b THEN 1 ELSE 0, s |-> <<>>]
StrCell(x)  == [t |-> "str",  n |-> 0, s |-> x]
NaN         == [t |-> "nan",  n |-> 0, s |-> <<>>]
NoneCell    == [t |-> "none", n |-> 0, s |-> <<>>]

\* pandas isna()
IsNa(c) == c.t \in {"nan", "none"}

\* Python bool(v): a number is true unless zero, a string unless empty,
\* float('nan') is true, None is false.
PyBool(c) ==
    CASE c.t \in {"int", "bool"} -> c.n # 0
      [] c.t = "str"             -> c.s # <<>>
      [] c.t = "nan"             -> TRUE
      [] OTHER                   -> FALSE

\* str(x)
PyStr(c) ==
    CASE c.t = "str"  -> c.s
      [] c.t = "int"  -> <<IF c.n = 0 THEN "0" ELSE IF c.n = 1 THEN "1" ELSE "2">>
      [] c.t = "bool" -> <<IF c.n = 1 THEN "True" ELSE "False">>
      [] c.t = "nan"  -> <<"nan">>
      [] OTHER        -> <<"None">>

\* ----------------------------------------------------------------- tables
\* pd.DataFrame()
EmptyFrame == [kind |-> "DataFrame", cols |-> <<>>, rows |-> <<>>]
\* the Python value None where a table is expected
NoneTable  == [kind |-> "None", cols |-> <<>>, rows |-> <<>>]

Frame(cols, rows) == [kind |-> "DataFrame", cols |-> cols, rows |-> rows]

NRows(t) == Len(t.rows)

\* DataFrame.empty: some axis has length zero
IsEmpty(t) == Len(t.cols) = 0 \/ Len(t.rows) = 0

\* name in df.columns
HasCol(t, name) == \E j \in 1..Len(t.cols) : t.cols[j] = name

\* position of the (first) column called name
ColIdx(t, name) == CHOOSE j \in 1..Len(t.cols) :
                       /\ t.cols[j] = name
                       /\ \A k \in 1..(j - 1) : t.cols[k] # name

\* df[name]: the column as a sequence of cells in row order
Col(t, name) == [i \in 1..NRows(t) |-> t.rows[i][ColIdx(t, name)]]

\* dtype of a column as read_csv / pandas infers it from its values
Dtype(t, name) ==
    LET ts == {Col(t, name)[i].t : i \in 1..NRows(t)} IN
    CASE ts \subseteq {"int"}        -> "int64"
      [] ts \subseteq {"bool"}       -> "bool"
      [] ts \subseteq {"int", "nan"} -> "float64"
      [] OTHER                       -> "object"

\* the common dtype of several columns (bool mixed with numbers is object)
CommonDtype(t, names) ==
    LET ds == {Dtype(t, names[k]) : k \in 1..Len(names)} IN
    CASE ds \subseteq {"int64"}            -> "int64"
      [] ds \subseteq {"bool"}             -> "bool"
      [] ds \subseteq {"int64", "float64"} -> "float64"
      [] OTHER                             -> "object"

\* (variant) the assignment followed by a dropna() on the new column
AssignColumnDropNa(t, name, values) ==
    LET keep == SelectSeq([i \in 1..NRows(t) |-> i], LAMBDA i : ~IsNa(values[i])) IN
    Frame(Append(t.cols, name),
          [k \in 1..Len(keep) |-> Append(t.rows[keep[k]], values[keep[k]])])

\* df[name] = values: overwrites the column when it exists, appends it otherwise
AssignColumn(t, name, values) ==
    IF HasCol(t, name)
    THEN Frame(t.cols,
               [i \in 1..NRows(t) |->
                   [t.rows[i] EXCEPT ![ColIdx(t, name)] = values[i]]])
    ELSE Frame(Append(t.cols, name),
               [i \in 1..NRows(t) |-> Append(t.rows[i], values[i])])

\* a scalar assigned to a column is broadcast to every row
Broadcast(t, c) == [i \in 1..NRows(t) |-> c]

\* ------------------------------------------------- prepare_transformed
\* the survey questions the column names are built from
Q_EASE  == "Seberapa mudah Anda mengakses SIAMIK saat war KRS berlangsung?"
Q_LOGIN == "Berapa lama rata-rata waktu login yang Anda alami saat war KRS? (.....menit)"
Q_ERR   == "Seberapa sering Anda mengalami gagal masuk atau error saat login di SIAMIK?"
Q_ACC   == "Berapa lama waktu yang Anda perlukan untuk menunggu ACC dari sistem/webnya? (....menit/jam)"
Q_SAT   == "Seberapa puas Anda secara keseluruhan terhadap SIAMIK dalam proses War KRS dan ACC?"
Q_QUAL  == "Berdasarkan pengalaman terakhir anda, Bagaimana penilaian anda terhadap kualitas SIAMIK saat war KRS dan ACC?"
Q_LOST  == "Apakah Anda pernah kehilangan mata kuliah karena slot penuh akibat lambatnya SIAMIK?"

lost_courses_lbl == <<"lost_courses", "_lbl">>
lbl_long         == <<"lbl_", Q_LOST>>

\* (variant) rename_map without its last entry, the lost-course label
rename_map_without_label ==
    << << <<"std_", Q_EASE>>,  <<"ease_of_access", "_std">> >>,
       << <<"std_", Q_LOGIN>>, <<"login_duration", "_std">> >>,
       << <<"std_", Q_ERR>>,   <<"login_errors", "_std">> >>,
       << <<"std_", Q_ACC>>,   <<"acc_wait", "_std">> >>,
       << <<"std_", Q_SAT>>,   <<"overall_satisfaction", "_std">> >>,
       << <<"std_", Q_QUAL>>,  <<"system_quality", "_std">> >>,
       << <<"log_", Q_LOGIN>>, <<"login_duration", "_log">> >>,
       << <<"log_", Q_ACC>>,   <<"acc_wait", "_log">> >> >>

\* rename_map, in the order it is written: <<source name, friendly name>>
rename_map_all ==
    << << <<"std_", Q_EASE>>,  <<"ease_of_access", "_std">> >>,
       << <<"std_", Q_LOGIN>>, <<"login_duration", "_std">> >>,
       << <<"std_", Q_ERR>>,   <<"login_errors", "_std">> >>,
       << <<"std_", Q_ACC>>,   <<"acc_wait", "_std">> >>,
       << <<"std_", Q_SAT>>,   <<"overall_satisfaction", "_std">> >>,
       << <<"std_", Q_QUAL>>,  <<"system_quality", "_std">> >>,
       << <<"log_", Q_LOGIN>>, <<"login_duration", "_log">> >>,
       << <<"log_", Q_ACC>>,   <<"acc_wait", "_log">> >>,
       << lbl_long,            lost_courses_lbl >> >>

\* rename only existing columns
RenameMapFor(t) == SelectSeq(rename_map_all, LAMBDA kv : HasCol(t, kv[1]))

RenamedName(c, rm) ==
    IF \E k \in 1..Len(rm) : rm[k][1] = c
    THEN rm[CHOOSE k \in 1..Len(rm) : rm[k][1] = c][2]
    ELSE c

\* df.rename(columns=rename_map)
Rename(t, rm) == Frame([j \in 1..Len(t.cols) |-> RenamedName(t.cols[j], rm)], t.rows)

\* the prefixes that str.replace removes from the decoded column name
FakultasPrefix == <<"Fakultas", "_">>
ProdiPrefix    == <<"Prodi", "_">>
ProblemPrefix  == <<"Masalah utama", " yang paling sering Anda alami saat war KRS?", "_">>
PriorityPrefix == <<"Jika diberikan", " kesempatan", " memilih, aspek apa yang paling ",
                    "prioritas", " untuk diperbaiki pada SIAMIK?", "_">>

\* group detection
IsFacultyCol(c)  == StartsWith(c, <<"Fakultas", "_">>) \/ StartsWith(Lower(c), <<"fakultas", "_">>)
IsProdiCol(c)    == StartsWith(c, <<"Prodi", "_">>) \/ StartsWith(Lower(c), <<"prodi", "_">>)
IsProblemCol(c)  == StartsWith(c, <<"Masalah utama">>) \/ Contains(Lower(c), <<"masalah utama">>)
IsPriorityCol(c) == \/ StartsWith(c, <<"Jika diberikan", " kesempatan">>)
                    \/ StartsWith(c, <<"Jika diberikan">>)
                    \/ Contains(Lower(c), <<"prioritas">>)

\* singular-column fallbacks
IsFacultyLike(c)  == Contains(Lower(c), <<"fakultas">>) \/ Contains(Lower(c), <<"faculty">>)
IsProdiLike(c)    == Contains(Lower(c), <<"prodi">>) \/ Contains(Lower(c), <<"study">>)
IsPriorityAlt(c)  == \/ Contains(Lower(c), <<"prioritas">>)
                     \/ Contains(Lower(c), <<"improvement">>)
                     \/ Contains(c, <<"Jika diberikan">>)

\* df[cols].idxmax(axis=1) raises TypeError when the columns are not all
\* numeric or boolean: the reduction is not allowed on the object dtype
IdxmaxRaises(t, gcols) == CommonDtype(t, gcols) = "object"

\* idxmax of row i: the first column holding the row's maximum (missing
\* values skipped); a row of missing values only has no label
Idxmax(t, gcols, i) ==
    LET v(k)  == t.rows[i][ColIdx(t, gcols[k])]
        valid == {k \in 1..Len(gcols) : ~IsNa(v(k))}
    IN  IF valid = {} THEN 0
        ELSE CHOOSE k \in valid :
                /\ \A m \in valid : v(m).n <= v(k).n
                /\ \A m \in valid : m < k => v(m).n < v(k).n

\* df[cols].idxmax(axis=1).str.replace(prefix, '', regex=False)
DecodeIdxmax(t, gcols, prefix) ==
    [i \in 1..NRows(t) |->
        LET k == Idxmax(t, gcols, i)
        IN  IF k = 0 THEN NaN ELSE StrCell(Replace(gcols[k], prefix))]

\* next((c.replace(prefix, '') for c, v in row.items() if bool(v)), 'Unknown')
DecodeFirstBool(t, gcols, prefix) ==
    [i \in 1..NRows(t) |->
        LET hit == {k \in 1..Len(gcols) : PyBool(t.rows[i][ColIdx(t, gcols[k])])}
        IN  IF hit = {} THEN StrCell(<<"Unknown">>)
            ELSE StrCell(Replace(gcols[CHOOSE k \in hit : \A m \in hit : k <= m], prefix))]

\* row.get(c) in [1, True, '1', 'True', 'TRUE', 'true']
IsPicked(c) ==
    \/ c.t \in {"int", "bool"} /\ c.n = 1
    \/ c.t = "str" /\ c.s \in {<<"1">>, <<"True">>, <<"TRUE">>, <<"true">>}

\* pick_problem / pick_priority: the first picked column, else None
DecodeFirstPicked(t, gcols, prefix) ==
    [i \in 1..NRows(t) |->
        LET hit == {k \in 1..Len(gcols) : IsPicked(t.rows[i][ColIdx(t, gcols[k])])}
        IN  IF hit = {} THEN NoneCell
            ELSE StrCell(Replace(gcols[CHOOSE k \in hit : \A m \in hit : k <= m], prefix))]

\* Series.astype(bool) raises only when bool() of an element raises; no
\* value read_csv produces does
AstypeBoolRaises(values) ==
    \E i \in 1..Len(values) : values[i].t \notin {"int", "bool", "str", "nan", "none"}

\* Series.astype(bool)
AstypeBool(values) == [i \in 1..Len(values) |-> BoolCell(PyBool(values[i]))]

\* lambda x: str(x).lower() in ['true', '1', 'yes', 'y']
IsYesText(c) == Lower(PyStr(c)) \in {<<"true">>, <<"1">>, <<"yes">>, <<"y">>}

YesText(values) == [i \in 1..Len(values) |-> BoolCell(IsYesText(values[i]))]

EmptyMeta == [faculty_cols |-> <<>>, prodi_cols |-> <<>>, problem_cols |-> <<>>,
              priority_cols |-> <<>>, renamed |-> <<>>]

\* (variant) the last faculty-like column taken instead of the first
FacultyValuesLastMatch(t, gcols) ==
    IF gcols # <<>>
    THEN IF IdxmaxRaises(t, gcols)
         THEN DecodeFirstBool(t, gcols, FakultasPrefix)
         ELSE DecodeIdxmax(t, gcols, FakultasPrefix)
    ELSE LET possible == SelectSeq(t.cols, IsFacultyLike)
         IN  IF possible # <<>> THEN Col(t, possible[Len(possible)])
             ELSE Broadcast(t, StrCell(<<"Unknown">>))

\* the faculty / study_program column
FacultyValues(t, gcols) ==
    IF gcols # <<>>
    THEN IF IdxmaxRaises(t, gcols)
         THEN DecodeFirstBool(t, gcols, FakultasPrefix)
         ELSE DecodeIdxmax(t, gcols, FakultasPrefix)
    ELSE LET possible == SelectSeq(t.cols, IsFacultyLike)
         IN  IF possible # <<>> THEN Col(t, possible[1])
             ELSE Broadcast(t, StrCell(<<"Unknown">>))

ProdiValues(t, gcols) ==
    IF gcols # <<>>
    THEN IF IdxmaxRaises(t, gcols)
         THEN DecodeFirstBool(t, gcols, ProdiPrefix)
         ELSE DecodeIdxmax(t, gcols, ProdiPrefix)
    ELSE LET possible_prodi == SelectSeq(t.cols, IsProdiLike)
         IN  IF possible_prodi # <<>> THEN Col(t, possible_prodi[1])
             ELSE Broadcast(t, StrCell(<<"Unknown">>))

\* the main_problem column
ProblemValues(t, gcols) ==
    IF gcols # <<>>
    THEN IF IdxmaxRaises(t, gcols)
         THEN DecodeFirstPicked(t, gcols, ProblemPrefix)
         ELSE DecodeIdxmax(t, gcols, ProblemPrefix)
    ELSE Broadcast(t, NoneCell)

\* the improvement_priority column
PriorityValues(t, gcols) ==
    IF gcols # <<>>
    THEN IF IdxmaxRaises(t, gcols)
         THEN DecodeFirstPicked(t, gcols, PriorityPrefix)
         ELSE DecodeIdxmax(t, gcols, PriorityPrefix)
    ELSE LET alt_cols == SelectSeq(t.cols, IsPriorityAlt)
         IN  IF alt_cols # <<>> THEN Col(t, alt_cols[1])
             ELSE Broadcast(t, NoneCell)

\* the lost_courses column
LostValues(t) ==
    IF HasCol(t, lost_courses_lbl)
    THEN IF AstypeBoolRaises(Col(t, lost_courses_lbl))
         THEN YesText(Col(t, lost_courses_lbl))
         ELSE AstypeBool(Col(t, lost_courses_lbl))
    ELSE IF HasCol(t, lbl_long)
    THEN IF AstypeBoolRaises(Col(t, lbl_long))
         THEN YesText(Col(t, t.cols[1]))
         ELSE AstypeBool(Col(t, lbl_long))
    ELSE Broadcast(t, BoolCell(FALSE))

\* (variant) the guard of line 62 left out
IsNoneOrEmptyNoGuard(t) == FALSE

\* `df_raw is None or df_raw.empty`
IsNoneOrEmpty(t) == t.kind = "None" \/ IsEmpty(t)

\* prepare_transformed(df_raw) -> (df, meta)
PrepareTransformed(raw) ==
    IF IsNoneOrEmpty(raw)
    THEN [df |-> EmptyFrame, meta |-> EmptyMeta]
    ELSE
    LET rm   == RenameMapFor(raw)
        d0   == Rename(raw, rm)
        fcols == SelectSeq(d0.cols, IsFacultyCol)
        pcols == SelectSeq(d0.cols, IsProdiCol)
        d1   == AssignColumn(d0, <<"faculty">>, FacultyValues(d0, fcols))
        d2   == AssignColumn(d1, <<"study", "_program">>, ProdiValues(d1, pcols))
        problem_cols  == SelectSeq(d2.cols, IsProblemCol)
        priority_cols == SelectSeq(d2.cols, IsPriorityCol)
        d3   == AssignColumn(d2, <<"main_problem">>, ProblemValues(d2, problem_cols))
        d4   == AssignColumn(d3, <<"improvement", "_priority">>, PriorityValues(d3, priority_cols))
        d5   == AssignColumn(d4, <<"lost_courses">>, LostValues(d4))
    IN  [df   |-> d5,
         meta |-> [faculty_cols |-> fcols, prodi_cols |-> pcols,
                   problem_cols |-> problem_cols, priority_cols |-> priority_cols,
                   renamed |-> rm]]

\* ------------------------------------------------------------- inputs
\* column names of the transformed dataset used as inputs
FakTeknik      == <<"Fakultas", "_", "Teknik">>
FakHukum       == <<"Fakultas", "_", "Hukum">>
FakHukumLower  == <<"fakultas", "_", "Hukum">>
ProdiInf       == <<"Prodi", "_", "Informatika">>
ProdiSipil     == <<"Prodi", "_", "Sipil">>
ProdiSipilLower == <<"prodi", "_", "Sipil">>
PrbServer      == ProblemPrefix \o <<"Server lambat">>
PrbSlot        == ProblemPrefix \o <<"Slot penuh">>
PrbSlotLower   == <<"masalah utama", " yang paling sering anda alami saat war krs?", "_", "Slot penuh">>
PriKecepatan   == PriorityPrefix \o <<"Kecepatan server">>
PriNotifikasi  == PriorityPrefix \o <<"Notifikasi">>
PriNotifikasiShort == <<"Prioritas", "_", "Notifikasi">>
Catatan        == <<"Catatan">>

\* the one-hot groups: name of the derived column, detection rule, prefix
Groups == {"faculty", "study_program", "problem", "improvement_priority"}

GroupPrefix(g) ==
    CASE g = "faculty"       -> FakultasPrefix
      [] g = "study_program" -> ProdiPrefix
      [] g = "problem"       -> ProblemPrefix
      [] OTHER               -> PriorityPrefix

DerivedName(g) ==
    CASE g = "faculty"       -> <<"faculty">>
      [] g = "study_program" -> <<"study", "_program">>
      [] g = "problem"       -> <<"main_problem">>
      [] OTHER               -> <<"improvement", "_priority">>

GroupColsOf(m, g) ==
    CASE g = "faculty"       -> m.faculty_cols
      [] g = "study_program" -> m.prodi_cols
      [] g = "problem"       -> m.problem_cols
      [] OTHER               -> m.priority_cols

\* pairs of indicator columns: two with the exact prefix, or one with the
\* exact prefix and one admitted by the case-insensitive / keyword rule
GroupColumnPairs ==
    { <<FakTeknik, FakHukum>>, <<FakTeknik, FakHukumLower>>, <<FakHukumLower, FakTeknik>>,
      <<ProdiInf, ProdiSipil>>, <<ProdiInf, ProdiSipilLower>>,
      <<PrbServer, PrbSlot>>, <<PrbServer, PrbSlotLower>>,
      <<PriKecepatan, PriNotifikasi>>, <<PriKecepatan, PriNotifikasiShort>> }

\* read_csv types a column from its text: a column of numbers only is read
\* as numbers, a column of True/False only as booleans, and any other
\* column keeps its text (dtype object)
NumberTexts == {<<"0">>, <<"1">>, <<"2">>, <<"3">>, <<"4">>, <<"5">>}
BoolTexts   == {<<"True">>, <<"TRUE">>, <<"true">>, <<"False">>, <<"FALSE">>, <<"false">>}

CsvTypedColumn(values) ==
    LET strs == {i \in 1..Len(values) : values[i].t = "str"} IN
    \/ strs = {}
    \/ /\ strs = 1..Len(values)
       /\ \E i \in strs : values[i].s \notin NumberTexts
       /\ \E i \in strs : values[i].s \notin BoolTexts

CsvTyped(t) == \A j \in 1..Len(t.cols) : CsvTypedColumn([i \in 1..NRows(t) |-> t.rows[i][j]])

\* the values of an indicator column, by dtype
IndicatorValues ==
    { {IntCell(0), IntCell(1)},
      {BoolCell(FALSE), BoolCell(TRUE)},
      {StrCell(<<"0">>), StrCell(<<"1">>), StrCell(<<"True">>), StrCell(<<"False">>)} }

GroupTables ==
    UNION { UNION { { t \in { Frame(cs, rows) :
                                rows \in UNION {[1..r -> [1..2 -> V]] : r \in 1..MaxRows} }
                      : CsvTyped(t) }
                    : V \in IndicatorValues }
            : cs \in GroupColumnPairs }

\* the lost-course label column, under its long name, its friendly name,
\* preceded or not by another column; text, 0/1 or boolean values
LostTexts == { <<"Ya">>, <<"Tidak">>, <<"yes">>, <<"YES">>, <<"no">>, <<"1">>, <<"0">> }

LostValueSets ==
    { {StrCell(x) : x \in LostTexts},
      {IntCell(0), IntCell(1)},
      {BoolCell(FALSE), BoolCell(TRUE)} }

LostTables ==
    UNION { UNION { { t \in { Frame(<<c>>, [i \in 1..Len(vals) |-> <<vals[i]>>])
                                : vals \in UNION {[1..r -> V] : r \in 1..MaxRows} }
                      : CsvTyped(t) }
                    : V \in LostValueSets }
            : c \in {lbl_long, lost_courses_lbl} }
    \cup { t \in { Frame(<<Catatan, lbl_long>>, <<<<StrCell(n), v>>>>)
                     : n \in {<<"yes">>, <<"no">>}, v \in {StrCell(x) : x \in LostTexts} }
           : CsvTyped(t) }

\* None, pd.DataFrame(), and a file holding a header row only
EmptyTables ==
    {NoneTable, EmptyFrame} \cup { Frame(cs, <<>>) : cs \in GroupColumnPairs }

\* tables without one-hot faculty / program columns: two faculty-like and
\* two program-like columns under names in other cases, or a faculty-like
\* column after an unrelated one and no program-like column
NamedTables ==
    { Frame(<< <<"FAKULTAS">>, <<"Faculty">>, <<"PRODI">>, <<"Study">> >>, rows) :
        rows \in UNION { [1..r -> { <<StrCell(<<"Teknik">>), StrCell(<<"Hukum">>),
                                      StrCell(<<"Informatika">>), StrCell(<<"Sipil">>)>>,
                                    <<StrCell(<<"Hukum">>), NaN,
                                      StrCell(<<"Sipil">>), StrCell(<<"Informatika">>)>> }]
                         : r \in 1..MaxRows } }
    \cup
    { Frame(<<Catatan, <<"Fakultas">>>>, rows) :
        rows \in UNION { [1..r -> { <<StrCell(<<"yes">>), StrCell(<<"Teknik">>)>>,
                                    <<StrCell(<<"no">>), NaN>> }]
                         : r \in 1..MaxRows } }

PrepareInputs == GroupTables \cup LostTables \cup EmptyTables \cup NamedTables

\* ------------------------------------------------------- script helpers
All == StrCell(<<"All">>)

faculty_col       == <<"faculty">>
study_program_col == <<"study", "_program">>
lost_courses_col  == <<"lost_courses">>

\* expected columns of the raw dataset
col_ease  == <<Q_EASE>>
col_sat   == <<Q_SAT>>
col_lost  == <<Q_LOST>>
col_login == <<Q_LOGIN>>
col_acc   == <<Q_ACC>>
Fakultas  == <<"Fakultas">>
Prodi     == <<"Prodi">>

\* Series.unique(): the distinct values (one NaN at most)
Unique(values) == {values[i] : i \in 1..Len(values)}

\* Python orders numbers with numbers and strings with strings; comparing a
\* string with a number, or anything with None, raises TypeError
TypeClass(c) ==
    CASE c.t \in {"int", "bool", "nan"} -> "number"
      [] c.t = "str"                    -> "str"
      [] OTHER                          -> "NoneType"

\* sorted(...) raises when two of the values cannot be compared
SortedRaises(S) == Cardinality({TypeClass(c) : c \in S}) > 1

\* the order of the texts under Python's string comparison
TextOrder == <<"All", "Hukum", "Informatika", "Sipil", "Teknik", "Unknown", "fakultas", "prodi">>

TextRank(x) == CHOOSE k \in 1..Len(TextOrder) : TextOrder[k] = x[1]

SortKey(c) == IF c.t = "str" THEN TextRank(c.s) ELSE c.n

\* sorted(values)
RECURSIVE Sorted(_)
Sorted(S) ==
    IF S = {} THEN <<>>
    ELSE LET m == CHOOSE x \in S : \A y \in S : SortKey(x) <= SortKey(y)
         IN  <<m>> \o Sorted(S \ {m})

\* ["All"] + sorted(df[name].unique().tolist()) if name in df.columns else ["All"]
OptionsRaise(t, name) == HasCol(t, name) /\ SortedRaises(Unique(Col(t, name)))

Options(t, name) ==
    IF HasCol(t, name) THEN <<All>> \o Sorted(Unique(Col(t, name))) ELSE <<All>>

\* st.selectbox(label, options, index=0): the value the user chose, or the
\* first option when nothing was chosen or the choice is no longer offered
Selectbox(options, chosen) ==
    IF \E k \in 1..Len(options) : options[k] = chosen THEN chosen ELSE options[1]

\* elementwise ==: a missing value equals nothing
CellEq(a, b) == ~IsNa(a) /\ ~IsNa(b) /\ a = b

\* t[t[name] == value]
FilterEq(t, name, value) ==
    Frame(t.cols, SelectSeq(t.rows, LAMBDA r : CellEq(r[ColIdx(t, name)], value)))

\* t[t[name] == True]
IsTrueCell(c) == c.t \in {"int", "bool"} /\ c.n = 1

FilterTrue(t, name) ==
    Frame(t.cols, SelectSeq(t.rows, LAMBDA r : IsTrueCell(r[ColIdx(t, name)])))

TextToInt(x) ==
    CASE x = <<"0">> -> 0 [] x = <<"1">> -> 1 [] x = <<"2">> -> 2
      [] x = <<"3">> -> 3 [] x = <<"4">> -> 4 [] OTHER -> 5

\* pd.to_numeric(series, errors='coerce')
ToNumericCell(c) ==
    CASE c.t \in {"int", "bool"}            -> IntCell(c.n)
      [] c.t = "str" /\ c.s \in NumberTexts -> IntCell(TextToInt(c.s))
      [] OTHER                              -> NaN

ToNumeric(values) == [i \in 1..Len(values) |-> ToNumericCell(values[i])]

\* Series.mean() raises TypeError on a column that holds text
MeanRaises(values) == \E i \in 1..Len(values) : values[i].t = "str"

\* Series.mean() is NaN when no value is present
MeanIsNaN(values) == \A i \in 1..Len(values) : IsNa(values[i])

\* Series.sum() of a text column concatenates it, and int() of that text
\* raises ValueError unless it spells a number
IntOfSumRaises(values) ==
    /\ \E i \in 1..Len(values) : values[i].t = "str"
    /\ ~(Len(values) = 1 /\ values[1].s \in NumberTexts)

\* (variant) filtered_raw = raw_df: the name raw_df still refers to the
\* table that the numeric conversion writes to
SharedWithoutCopy == {"raw_df"}

\* the names that refer to the object `x.copy()` returns, next to the name
\* it is assigned to: none, the copy is a new object
SharedAfterCopy == {}

\* get_filtered_df(base_df)
get_filtered_df(base_df, selF, selP) ==
    LET df_f == base_df
        f1 == IF HasCol(df_f, faculty_col) /\ selF # All
              THEN FilterEq(df_f, faculty_col, selF) ELSE df_f
        f2 == IF HasCol(f1, study_program_col) /\ selP # All
              THEN FilterEq(f1, study_program_col, selP) ELSE f1
    IN  f2

\* DataFrame.to_csv(index=False): the header and one line of text per row
ToCsv(t) == [header |-> t.cols,
             lines  |-> [i \in 1..NRows(t) |->
                            [j \in 1..Len(t.cols) |->
                                IF IsNa(t.rows[i][j]) THEN <<>> ELSE PyStr(t.rows[i][j])]]]

NoExport == [header |-> <<>>, lines |-> <<>>]

\* Series.sum() of a numeric or boolean column (missing values skipped)
RECURSIVE SumOf(_)
SumOf(values) ==
    IF values = <<>> THEN 0
    ELSE (IF IsNa(Head(values)) THEN 0 ELSE Head(values).n) + SumOf(Tail(values))

\* Series.astype(bool).sum()
CountTrue(values) == Cardinality({i \in 1..Len(values) : PyBool(values[i])})

\* pd.api.types.is_numeric_dtype(df[name]) (numbers and booleans)
IsNumericCol(t, name) == Dtype(t, name) # "object"

\* the names the script gives the metric columns
overall_satisfaction_std == <<"overall_satisfaction", "_std">>
ease_of_access_std       == <<"ease_of_access", "_std">>
login_duration_log       == <<"login_duration", "_log">>
login_duration_std       == <<"login_duration", "_std">>
login_errors_std         == <<"login_errors", "_std">>
acc_wait_log             == <<"acc_wait", "_log">>
acc_wait_std             == <<"acc_wait", "_std">>

NoError == "none"

\* t[t[name] == value] when the condition of the `if` holds
FilterIf(t, cond, name, value) == IF cond THEN FilterEq(t, name, value) ELSE t

\* lines 201-205: filtered_transformed
FilteredTransformed(dfv, selF, selP) ==
    FilterIf(FilterIf(dfv, selF # All, faculty_col, selF),
             selP # All, study_program_col, selP)

\* lines 213-223: one raw filter inside `if not filtered_raw.empty:`
RawFilter(t, inBlock, name, value) ==
    FilterIf(t, inBlock /\ HasCol(t, name) /\ value # All, name, value)

\* lines 233-236: filtered_raw[c] = pd.to_numeric(filtered_raw[c], errors='coerce')
ConvertNumeric(t, c) ==
    IF ~IsEmpty(t) /\ HasCol(t, c) THEN AssignColumn(t, c, ToNumeric(Col(t, c))) ELSE t

\* lines 210-236: filtered_raw after the filters and the conversion
FilteredRaw(rawv, selF, selP) ==
    ConvertNumeric(
        ConvertNumeric(
            RawFilter(RawFilter(rawv, ~IsEmpty(rawv), Fakultas, selF),
                      ~IsEmpty(rawv), Prodi, selP),
            col_ease),
        col_sat)

\* the names that refer to the object the conversion writes to, next to
\* filtered_raw: a filter that ran made a new object
SharedWithFilteredRaw(rawv, selF, selP) ==
    IF ~IsEmpty(rawv) /\ (   (HasCol(rawv, Fakultas) /\ selF # All)
                          \/ (HasCol(rawv, Prodi) /\ selP # All))
    THEN {} ELSE SharedAfterCopy

\* lines 243-251: a mean from the raw column, else from the transformed one
StatRaises(fr, rc, ft, tc) ==
    IF HasCol(fr, rc) THEN MeanRaises(Col(fr, rc))
    ELSE HasCol(ft, tc) /\ MeanRaises(Col(ft, tc))

StatIsNaN(fr, rc, ft, tc) ==
    IF HasCol(fr, rc) THEN MeanIsNaN(Col(fr, rc))
    ELSE IF HasCol(ft, tc) THEN MeanIsNaN(Col(ft, tc)) ELSE TRUE

\* lines 253-257: the lost-course rate is NaN over no rows
LostIsNaN(fr, ft) ==
    IF HasCol(fr, col_lost) THEN NRows(fr) = 0
    ELSE IF HasCol(ft, lost_courses_col) THEN NRows(ft) = 0 ELSE TRUE

\* lines 269-271: the card shows "N/A" for NaN
Shown(isNaN) == IF isNaN THEN "N/A" ELSE "value"

\* the sidebar ended by an exception
SidebarRaised(err, facs, prods, selF, selP, rawv) ==
    [error |-> err, faculties |-> facs, prodis |-> prods,
     selected_faculty |-> selF, selected_prodi |-> selP,
     filtered_transformed |-> EmptyFrame, filtered_raw |-> EmptyFrame,
     raw_df |-> rawv, metrics |-> <<>>, export |-> NoExport]

\* lines 239-277: quick statistics, metric cards and the export
SidebarStats(rawv, facs, prods, selF, selP, button, ft, fr, shared) ==
    IF StatRaises(fr, col_sat, ft, overall_satisfaction_std)
    THEN SidebarRaised("TypeError line 246", facs, prods, selF, selP,
                       IF "raw_df" \in shared THEN fr ELSE rawv)
    ELSE IF StatRaises(fr, col_ease, ft, ease_of_access_std)
    THEN SidebarRaised("TypeError line 251", facs, prods, selF, selP,
                       IF "raw_df" \in shared THEN fr ELSE rawv)
    ELSE [error |-> NoError, faculties |-> facs, prodis |-> prods,
          selected_faculty |-> selF, selected_prodi |-> selP,
          filtered_transformed |-> ft, filtered_raw |-> fr,
          raw_df |-> IF "raw_df" \in shared THEN fr ELSE rawv,
          metrics |-> <<IF IsEmpty(fr) THEN 0 ELSE NRows(fr),
                        Shown(StatIsNaN(fr, col_sat, ft, overall_satisfaction_std)),
                        Shown(StatIsNaN(fr, col_ease, ft, ease_of_access_std)),
                        Shown(LostIsNaN(fr, ft))>>,
          export |-> IF button THEN ToCsv(ft) ELSE NoExport]

\* lines 201-236: the two filtered tables
SidebarFilters(dfv, rawv, facs, prods, selF, selP, button) ==
    SidebarStats(rawv, facs, prods, selF, selP, button,
                 FilteredTransformed(dfv, selF, selP),
                 FilteredRaw(rawv, selF, selP),
                 SharedWithFilteredRaw(rawv, selF, selP))

\* lines 192-193: the study program options and selectbox
SidebarProdi(dfv, rawv, facs, selF, chosenP, button) ==
    IF OptionsRaise(dfv, study_program_col)
    THEN SidebarRaised("TypeError line 192", facs, <<>>, selF, chosenP, rawv)
    ELSE SidebarFilters(dfv, rawv, facs, Options(dfv, study_program_col), selF,
                        Selectbox(Options(dfv, study_program_col), chosenP), button)

\* lines 184-280: the sidebar.  chosenF / chosenP are the widget values the
\* user left, button is whether "Download filtered CSV" was just pressed.
Sidebar(dfv, rawv, chosenF, chosenP, button) ==
    IF OptionsRaise(dfv, faculty_col)
    THEN SidebarRaised("TypeError line 189", <<>>, <<>>, chosenF, chosenP, rawv)
    ELSE SidebarProdi(dfv, rawv, Options(dfv, faculty_col),
                      Selectbox(Options(dfv, faculty_col), chosenF), chosenP, button)

\* lines 312-463: the overview tab
Overview(dfv, metav, rawv, selF, selP) ==
    LET dff == get_filtered_df(dfv, selF, selP)
        rf1 == IF selF # All /\ HasCol(rawv, Fakultas)
               THEN FilterEq(rawv, Fakultas, selF) ELSE rawv
        rf2 == IF selP # All /\ HasCol(rf1, Prodi)
               THEN FilterEq(rf1, Prodi, selP) ELSE rf1
        loginRaises == HasCol(rf2, col_login) /\ MeanRaises(Col(rf2, col_login))
        accRaises   == HasCol(rf2, col_acc) /\ MeanRaises(Col(rf2, col_acc))
        numeric_transformed ==
            SelectSeq(dff.cols, LAMBDA c : Dtype(dff, c) \in {"int64", "float64"})
        countRaises == /\ metav.faculty_cols # <<>>
                       /\ \E k \in 1..Len(metav.faculty_cols) :
                              IntOfSumRaises(Col(dfv, metav.faculty_cols[k]))
    IN  [error |-> IF loginRaises THEN "TypeError line 359"
                   ELSE IF accRaises THEN "TypeError line 365"
                   ELSE IF countRaises THEN "ValueError line 450"
                   ELSE NoError,
         infos |-> (IF IsEmpty(rawv)
                    THEN {"Raw dataset not available for preview."} ELSE {})
                   \cup (IF IsEmpty(dff)
                         THEN {"No transformed data found for descriptive statistics."}
                         ELSE IF numeric_transformed = <<>>
                              THEN {"No numeric columns found in transformed dataset."}
                              ELSE {})
                   \cup (IF metav.faculty_cols = <<>> /\ ~HasCol(dfv, faculty_col)
                         THEN {"Faculty one-hot columns not found in dataset."} ELSE {})]

\* lines 468-531: the system performance tab
Perf(dfv, metav, selF, selP) ==
    LET dff == get_filtered_df(dfv, selF, selP)
        loginRaises ==
            IF HasCol(dff, login_duration_log) THEN MeanRaises(Col(dff, login_duration_log))
            ELSE HasCol(dff, login_duration_std) /\ MeanRaises(Col(dff, login_duration_std))
        acc_col == IF HasCol(dfv, acc_wait_log) THEN acc_wait_log
                   ELSE IF HasCol(dfv, acc_wait_std) THEN acc_wait_std ELSE <<>>
        acc_means == SelectSeq(metav.faculty_cols,
                               LAMBDA fcol : NRows(FilterTrue(dfv, fcol)) > 0)
        chart == acc_col # <<>> /\ metav.faculty_cols # <<>>
        candidate_metrics == <<ease_of_access_std, login_duration_std, login_duration_log,
                               login_errors_std, acc_wait_std, acc_wait_log,
                               overall_satisfaction_std>>
        available == SelectSeq(candidate_metrics, LAMBDA c : HasCol(dff, c))
    IN  [error |-> IF loginRaises THEN "TypeError line 479"
                   ELSE IF chart /\ acc_means = <<>> THEN "KeyError line 509"
                   ELSE NoError,
         infos |-> (IF ~HasCol(dff, login_duration_log) /\ ~HasCol(dff, login_duration_std)
                    THEN {"Login duration column not found."} ELSE {})
                   \cup (IF ~HasCol(dff, login_errors_std)
                         THEN {"Login errors column not found."} ELSE {})
                   \cup (IF ~chart
                         THEN {"ACC waiting column or faculty columns not available for this chart."}
                         ELSE {})
                   \cup (IF available = <<>>
                         THEN {"No performance metrics found for summary table."} ELSE {})]

\* lines 536-568: the satisfaction and correlation tab
Sat(dfv, selF, selP) ==
    LET dff == get_filtered_df(dfv, selF, selP)
        keyed(c) == \/ Contains(c, <<"_std">>) \/ Contains(c, <<"_log">>)
                    \/ Contains(c, <<"ease_of_access">>)
                    \/ Contains(c, <<"overall_satisfaction">>)
                    \/ Contains(c, <<"system_quality">>)
        numeric_cols == SelectSeq(dff.cols, LAMBDA c : keyed(c) /\ IsNumericCol(dff, c))
    IN  [error |-> NoError,
         infos |-> (IF ~HasCol(dff, overall_satisfaction_std)
                    THEN {"Overall satisfaction column not found."} ELSE {})
                   \cup (IF ~HasCol(dff, ease_of_access_std)
                         THEN {"Ease of access column not found."} ELSE {})
                   \cup (IF numeric_cols = <<>>
                         THEN {"No numeric columns detected for correlation."} ELSE {})]

\* df.loc[df[fcol] == True, pcol].mean() for every faculty and inner column
\* (lines 614-620 and 760-766): raises when a non-empty subset holds text
MatrixRaises(dfv, faculty_cols, inner_cols) ==
    \E f \in 1..Len(faculty_cols) : \E p \in 1..Len(inner_cols) :
        LET sub == FilterTrue(dfv, faculty_cols[f])
        IN  NRows(sub) > 0 /\ MeanRaises(Col(sub, inner_cols[p]))

\* lines 573-635: the common problems tab
Prob(dfv, metav, selF, selP) ==
    LET dff == get_filtered_df(dfv, selF, selP)
        problem_cols == metav.problem_cols
        countFails == \E k \in 1..Len(problem_cols) : IntOfSumRaises(Col(dff, problem_cols[k]))
        sevRaises ==
            \E k \in 1..Len(problem_cols) :
                LET reporters == FilterTrue(dff, problem_cols[k])
                IN  /\ HasCol(reporters, overall_satisfaction_std)
                    /\ NRows(reporters) > 0
                    /\ MeanRaises(Col(reporters, overall_satisfaction_std))
    IN  IF problem_cols # <<>>
        THEN [error |-> IF sevRaises THEN "TypeError line 597"
                        ELSE IF metav.faculty_cols # <<>>
                                /\ MatrixRaises(dfv, metav.faculty_cols, problem_cols)
                             THEN "TypeError line 619"
                             ELSE NoError,
              infos |-> (IF countFails
                         THEN {"Could not compute problem frequencies. Check problem one-hot columns."}
                         ELSE {})
                        \cup (IF metav.faculty_cols = <<>>
                              THEN {"Faculty one-hot columns not available for this chart."}
                              ELSE {})]
        ELSE [error |-> NoError,
              infos |-> IF HasCol(dff, <<"main_problem">>) THEN {}
                        ELSE {"No problem columns found in dataset."}]

\* lines 640-796: the improvement priorities tab
Prio(dfv, metav, selF, selP) ==
    LET dff == get_filtered_df(dfv, selF, selP)
        pr_cols == metav.priority_cols
        sumFails == \E k \in 1..Len(pr_cols) : IntOfSumRaises(Col(dff, pr_cols[k]))
        count(p) == IF sumFails THEN CountTrue(Col(dff, p)) ELSE SumOf(Col(dff, p))
        anyCount == IF pr_cols # <<>>
                    THEN \E k \in 1..Len(pr_cols) : count(pr_cols[k]) # 0
                    ELSE /\ HasCol(dff, <<"improvement", "_priority">>)
                         /\ \E i \in 1..NRows(dff) :
                                ~IsNa(dff.rows[i][ColIdx(dff, <<"improvement", "_priority">>)])
    IN  IF ~anyCount
        THEN [error |-> NoError,
              infos |-> {"No improvement priority information found."}]
        ELSE [error |-> IF metav.faculty_cols # <<>>
                           /\ MatrixRaises(dfv, metav.faculty_cols, pr_cols)
                        THEN "TypeError line 765" ELSE NoError,
              infos |-> {}]

\* --------------------------------------------------------- aggregates
\* a float that is a quotient of integers; den = 0 stands for NaN
Rat(n, d) == [num |-> n, den |-> d]

NaNRat == Rat(0, 0)

\* the literals 0 and 0.0
ZeroRat == Rat(0, 1)

\* Series.mean(): the sum of the values present over their number, NaN
\* when none is present
Mean(values) ==
    Rat(SumOf(values), Cardinality({i \in 1..Len(values) : ~IsNa(values[i])}))

\* x * 100
Times100(r) == Rat(100 * r.num, r.den)

\* Series.value_counts(): the number of rows of every value present
ValueCounts(values) ==
    { [value |-> v,
       count |-> Cardinality({i \in 1..Len(values) : values[i] = v})]
      : v \in {c \in Unique(values) : ~IsNa(c)} }

\* line 355: t['lost_courses'].mean() * 100 if 'lost_courses' in t.columns else np.nan
LostCoursesRate(t) ==
    IF HasCol(t, lost_courses_col) THEN Times100(Mean(Col(t, lost_courses_col)))
    ELSE NaNRat

\* {c.replace(prefix, ''): int(t[c].sum()) for c in cols} (lines 450, 581, 648)
SumCounts(t, cols, prefix) ==
    [k \in 1..Len(cols) |->
        [name |-> Replace(cols[k], prefix), count |-> SumOf(Col(t, cols[k]))]]

\* int(t[p].astype(bool).sum()) for every column (lines 659-666)
TrueCounts(t, cols, prefix) ==
    [k \in 1..Len(cols) |->
        [name |-> Replace(cols[k], prefix), count |-> CountTrue(Col(t, cols[k]))]]

\* lines 449-459: the respondent distribution by faculty
FacultyDistribution(t, fcols) ==
    IF fcols # <<>>
    THEN [kind |-> "one-hot", counts |-> SumCounts(t, fcols, FakultasPrefix), values |-> {}]
    ELSE IF HasCol(t, faculty_col)
    THEN [kind |-> "value_counts", counts |-> <<>>, values |-> ValueCounts(Col(t, faculty_col))]
    ELSE [kind |-> "none", counts |-> <<>>, values |-> {}]

\* line 500: the ACC waiting column, <<>> for None
AccCol(t) ==
    IF HasCol(t, acc_wait_log) THEN acc_wait_log
    ELSE IF HasCol(t, acc_wait_std) THEN acc_wait_std ELSE <<>>

\* lines 502-508: the mean ACC wait of every faculty that has a row
AccMeans(t, fcols, acc_col) ==
    { [Faculty |-> Replace(fcols[k], FakultasPrefix),
       MeanACC |-> IF IsNumericCol(t, acc_col)
                   THEN Mean(Col(FilterTrue(t, fcols[k]), acc_col)) ELSE NaNRat]
      : k \in {j \in 1..Len(fcols) : NRows(FilterTrue(t, fcols[j])) > 0} }

\* line 591: total_reports
TotalReports(counted, counts) ==
    IF counted /\ SumOf([k \in 1..Len(counts) |-> IntCell(counts[k].count)]) > 0
    THEN SumOf([k \in 1..Len(counts) |-> IntCell(counts[k].count)])
    ELSE 1

\* (variant) the share of the reports left out: 5 - avg_sat_reporters
SeverityScoreUnweighted(avg, cnt, total_reports) ==
    Rat(5 * avg.den - avg.num, avg.den)

\* line 598: (5 - avg_sat_reporters) * (cnt / total_reports)
SeverityScore(avg, cnt, total_reports) ==
    Rat((5 * avg.den - avg.num) * cnt, avg.den * total_reports)

\* line 595: reporters
Reporters(dff, pcol) ==
    IF HasCol(dff, pcol) THEN FilterTrue(dff, pcol) ELSE EmptyFrame

\* line 597: avg_sat_reporters
AvgSatReporters(reporters) ==
    IF HasCol(reporters, overall_satisfaction_std) /\ NRows(reporters) > 0
    THEN Mean(Col(reporters, overall_satisfaction_std)) ELSE NaNRat

\* lines 596-599: one severity record
SeverityOf(label, reporters, avg, total_reports) ==
    [Problem |-> label,
     Count |-> IF ~IsEmpty(reporters) THEN NRows(reporters) ELSE 0,
     AvgSatisfaction |-> avg,
     SeverityScore |-> IF avg.den # 0
                       THEN SeverityScore(avg, IF ~IsEmpty(reporters) THEN NRows(reporters) ELSE 0,
                                          total_reports)
                       ELSE ZeroRat]

\* lines 593-599: severity_records
SeverityRecords(dff, problem_cols, total_reports) ==
    [k \in 1..Len(problem_cols) |->
        SeverityOf(Replace(problem_cols[k], ProblemPrefix),
                   Reporters(dff, problem_cols[k]),
                   AvgSatReporters(Reporters(dff, problem_cols[k])),
                   total_reports)]

\* (variant) the mean taken without asking whether the faculty has rows
MatrixCellUnguarded(sub, pcol) == Times100(Mean(Col(sub, pcol)))

\* lines 618-619 and 764-765: one cell of a percentage matrix
MatrixCell(sub, pcol) ==
    IF NRows(sub) > 0 THEN Times100(Mean(Col(sub, pcol))) ELSE ZeroRat

\* lines 612-620 and 758-766: for every faculty column, the percentage of
\* its rows that have each inner indicator set
FacultyMatrix(t, fcols, inner_cols) ==
    [f \in 1..Len(fcols) |->
        [Faculty |-> Replace(fcols[f], FakultasPrefix),
         cells |-> [p \in 1..Len(inner_cols) |->
                       MatrixCell(FilterTrue(t, fcols[f]), inner_cols[p])]]]

\* what the overview tab shows of the canonical table
OverviewShown(dfv, metav) ==
    [shown |-> TRUE,
     lost_courses_rate |-> LostCoursesRate(dfv),
     fac_df |-> FacultyDistribution(dfv, metav.faculty_cols)]

\* what the performance tab shows: the ACC wait chart
PerfShown(dfv, metav) ==
    [shown |-> TRUE,
     chart |-> AccCol(dfv) # <<>> /\ metav.faculty_cols # <<>>,
     acc_means |-> IF AccCol(dfv) # <<>> /\ metav.faculty_cols # <<>>
                   THEN AccMeans(dfv, metav.faculty_cols, AccCol(dfv)) ELSE {}]

\* lines 577-587: whether prob_df was computed (the try did not raise)
ProblemsCounted(dff, problem_cols) ==
    ~\E k \in 1..Len(problem_cols) : IntOfSumRaises(Col(dff, problem_cols[k]))

\* what the problems tab shows
ProbShown(dfv, dff, metav) ==
    IF metav.problem_cols = <<>>
    THEN [shown |-> TRUE, one_hot |-> FALSE, counted |-> FALSE, prob_counts |-> <<>>,
          total_reports |-> 0, severity_records |-> <<>>,
          matrix |-> FALSE, fac_matrix |-> <<>>]
    ELSE [shown |-> TRUE, one_hot |-> TRUE,
          counted |-> ProblemsCounted(dff, metav.problem_cols),
          prob_counts |-> IF ProblemsCounted(dff, metav.problem_cols)
                          THEN SumCounts(dff, metav.problem_cols, ProblemPrefix) ELSE <<>>,
          total_reports |-> TotalReports(ProblemsCounted(dff, metav.problem_cols),
                                         SumCounts(dff, metav.problem_cols, ProblemPrefix)),
          severity_records |->
              SeverityRecords(dff, metav.problem_cols,
                              TotalReports(ProblemsCounted(dff, metav.problem_cols),
                                           SumCounts(dff, metav.problem_cols, ProblemPrefix))),
          matrix |-> metav.faculty_cols # <<>>,
          fac_matrix |-> IF metav.faculty_cols # <<>>
                         THEN FacultyMatrix(dfv, metav.faculty_cols, metav.problem_cols)
                         ELSE <<>>]

\* lines 646-668: pr_counts from the one-hot columns
PriorityCounts(dff, pr_cols) ==
    IF \E k \in 1..Len(pr_cols) : IntOfSumRaises(Col(dff, pr_cols[k]))
    THEN TrueCounts(dff, pr_cols, PriorityPrefix)
    ELSE SumCounts(dff, pr_cols, PriorityPrefix)

\* line 684: pr_df['Count'].sum() == 0
NoPriorityCount(counts) == \A k \in 1..Len(counts) : counts[k].count = 0

\* what the priorities tab shows
PrioShown(dfv, dff, metav) ==
    IF metav.priority_cols = <<>>
    THEN [shown |-> TRUE, one_hot |-> FALSE, pr_counts |-> <<>>,
          matrix |-> FALSE, fac_pr_mat |-> <<>>]
    ELSE [shown |-> TRUE, one_hot |-> TRUE,
          pr_counts |-> PriorityCounts(dff, metav.priority_cols),
          matrix |-> /\ ~NoPriorityCount(PriorityCounts(dff, metav.priority_cols))
                     /\ metav.faculty_cols # <<>>,
          fac_pr_mat |-> IF /\ ~NoPriorityCount(PriorityCounts(dff, metav.priority_cols))
                            /\ metav.faculty_cols # <<>>
                         THEN FacultyMatrix(dfv, metav.faculty_cols, metav.priority_cols)
                         ELSE <<>>]

\* nothing shown yet in this run
NotShown ==
    [overview |-> [shown |-> FALSE], perf |-> [shown |-> FALSE],
     sat |-> [shown |-> FALSE], prob |-> [shown |-> FALSE], prio |-> [shown |-> FALSE]]

\* ------------------------------------------------------- the two files
transformed_path == "data_final_transformed (1).csv"
raw_path         == "Data_Responden.csv"

\* what reading a path gives: a parsed table, or the exception read_csv raised
FileOk(t)     == [ok |-> TRUE,  data |-> t,          err |-> "none"]
FileFails(e)  == [ok |-> FALSE, data |-> EmptyFrame, err |-> e]

ReadErrors == {"FileNotFoundError", "ParserError"}

\* the transformed dataset with every one-hot group and metric column: one
\* row per respondent, given by the faculty (0: no indicator set) and the
\* lost-course answer
FullColumns ==
    <<FakTeknik, FakHukum, ProdiInf, ProdiSipil, PrbServer, PrbSlot,
      PriKecepatan, PriNotifikasi, <<"std_", Q_SAT>>, <<"log_", Q_ACC>>, lbl_long>>

Flag(b) == IntCell(IF b THEN 1 ELSE 0)

FullRow(fac, lost) ==
    <<Flag(fac = 1), Flag(fac = 2), Flag(fac = 1), Flag(fac = 2),
      Flag(lost = 1), Flag(fac = 2), Flag(fac = 1), Flag(fac # 1),
      IF fac = 0 THEN NaN ELSE IntCell(IF lost = 0 THEN 4 ELSE IF fac = 2 THEN 6 ELSE 2),
      IntCell(fac + 1), Flag(lost = 1)>>

FullRows == {FullRow(1, 1), FullRow(2, 0), FullRow(2, 1), FullRow(0, 1)}

\* a transformed dataset without one-hot columns: singular Fakultas / Prodi
\* columns, the faculty possibly left blank
SingularColumns == <<Fakultas, Prodi, <<"std_", Q_SAT>>>>

SingularRows ==
    { <<StrCell(<<"Teknik">>), StrCell(<<"Informatika">>), IntCell(4)>>,
      <<StrCell(<<"Hukum">>),  StrCell(<<"Sipil">>),       IntCell(2)>>,
      <<NaN,                   StrCell(<<"Informatika">>), IntCell(3)>> }

\* a transformed dataset of problem indicators only, one respondent having
\* typed a word into the first indicator
ReportColumns == <<PrbServer, PrbSlot>>

ReportRows ==
    { <<StrCell(<<"1">>), IntCell(1)>>, <<StrCell(<<"ya">>), IntCell(1)>> }

\* a dataset with none of the expected columns
BareColumns == <<Catatan>>
BareRows    == { <<StrCell(<<"yes">>)>> }

TablesOver(cols, rowset) ==
    { Frame(cols, rows) : rows \in UNION {[1..r -> rowset] : r \in 1..MaxRows} }

TransformedTables ==
    TablesOver(FullColumns, FullRows)
    \cup TablesOver(SingularColumns, SingularRows)
    \cup { t \in TablesOver(ReportColumns, ReportRows) : CsvTyped(t) }
    \cup TablesOver(BareColumns, BareRows)

\* the raw dataset: ease of access typed as free text by one respondent,
\* login time either a number of minutes or free text
RawColumns == <<Fakultas, Prodi, col_ease, col_sat, col_lost, col_login, col_acc>>

RawNumeric ==
    Frame(RawColumns,
          << <<StrCell(<<"Teknik">>), StrCell(<<"Informatika">>), StrCell(<<"4">>),
               IntCell(4), StrCell(<<"Ya">>), IntCell(5), IntCell(1)>>,
             <<StrCell(<<"Hukum">>), StrCell(<<"Sipil">>), StrCell(<<"mudah">>),
               IntCell(2), StrCell(<<"Tidak">>), IntCell(3), IntCell(2)>> >>)

RawFreeText ==
    Frame(RawColumns,
          << <<StrCell(<<"Teknik">>), StrCell(<<"Informatika">>), StrCell(<<"4">>),
               IntCell(4), StrCell(<<"Ya">>), StrCell(<<"5", " menit">>), IntCell(1)>>,
             <<StrCell(<<"Hukum">>), StrCell(<<"Sipil">>), StrCell(<<"mudah">>),
               IntCell(2), StrCell(<<"Tidak">>), StrCell(<<"3", " menit">>), IntCell(2)>> >>)

RawTables == {RawNumeric, RawFreeText}

\* ------------------------------------------------------------- state
VARIABLES
    pc,                   \* the section of the script about to run
    fs_transformed,       \* what reading transformed_path gives
    fs_raw,               \* what reading raw_path gives
    cache_transformed,    \* st.cache_data entry of load_transformed
    cache_raw,            \* st.cache_data entry of load_raw
    df_raw,               \* what load_transformed() returned
    raw_df,               \* what load_raw() returned
    df,                   \* the canonical table
    meta,                 \* the detection metadata
    warnings,             \* st.warning elements shown in this run
    selected_faculty,     \* value of the faculty selectbox
    selected_prodi,       \* value of the study program selectbox
    faculties,            \* options of the faculty selectbox
    prodis,               \* options of the study program selectbox
    clicked,              \* "Download filtered CSV" was pressed for this run
    filtered_transformed, \* the filtered canonical table of the sidebar
    filtered_raw,         \* the filtered raw table of the sidebar
    metrics,              \* the sidebar's quick statistics
    export,               \* the content handed to st.download_button
    infos,                \* st.info placeholders shown in this run
    error,                \* the exception that ended this run, if any
    views,                \* the aggregates the tabs showed in this run
    trigger               \* the event that started this run

vars == <<pc, fs_transformed, fs_raw, cache_transformed, cache_raw, df_raw, raw_df,
          df, meta, warnings, selected_faculty, selected_prodi, faculties, prodis,
          clicked, filtered_transformed, filtered_raw, metrics, export, infos, error,
          views, trigger>>

files  == <<fs_transformed, fs_raw>>
caches == <<cache_transformed, cache_raw>>
widgets == <<selected_faculty, selected_prodi, clicked>>
sidebarOut == <<faculties, prodis, filtered_transformed, filtered_raw, metrics, export>>

NoEntry == [hit |-> FALSE, value |-> EmptyFrame, warned |-> <<>>]

\* (variant) the loader without its st.warning call
LoadCsvSilent(what, path, fs) ==
    [table |-> fs.data, warned |-> <<>>]

\* the body of load_transformed / load_raw: pd.read_csv(path), and on any
\* exception one st.warning and an empty DataFrame
LoadCsv(what, path, fs) ==
    IF fs.ok
    THEN [table |-> fs.data, warned |-> <<>>]
    ELSE [table |-> EmptyFrame,
          warned |-> <<[what |-> what, path |-> path, error |-> fs.err]>>]

\* @st.cache_data: the body runs on a miss; a hit returns the stored value
\* and replays the elements the body showed
Cached(entry, what, path, fs) ==
    IF entry.hit THEN entry
    ELSE LET r == LoadCsv(what, path, fs)
         IN  [hit |-> TRUE, value |-> r.table, warned |-> r.warned]

\* line 177: df_raw = load_transformed()
LoadTransformed ==
    /\ pc = "load_transformed"
    /\ LET e == Cached(cache_transformed, "transformed dataset", transformed_path, fs_transformed)
       IN  /\ cache_transformed' = e
           /\ df_raw' = e.value
           /\ warnings' = warnings \o e.warned
    /\ pc' = "load_raw"
    /\ UNCHANGED <<files, cache_raw, raw_df, df, meta, widgets, sidebarOut, infos, error, views, trigger>>

\* line 178: raw_df = load_raw()
LoadRaw ==
    /\ pc = "load_raw"
    /\ LET e == Cached(cache_raw, "raw dataset", raw_path, fs_raw)
       IN  /\ cache_raw' = e
           /\ raw_df' = e.value
           /\ warnings' = warnings \o e.warned
    /\ pc' = "prepare"
    /\ UNCHANGED <<files, cache_transformed, df_raw, df, meta, widgets, sidebarOut, infos, error, views, trigger>>

\* line 179: df, meta = prepare_transformed(df_raw)
Prepare ==
    /\ pc = "prepare"
    /\ LET r == PrepareTransformed(df_raw) IN
         /\ df' = r.df
         /\ meta' = r.meta
    /\ pc' = "sidebar"
    /\ UNCHANGED <<files, caches, df_raw, raw_df, warnings, widgets, sidebarOut, infos, error, views, trigger>>

\* where the script goes after a section: on, or out with the exception
After(err, next) == IF err = NoError THEN next ELSE "crashed"

\* lines 184-280
SidebarStep ==
    /\ pc = "sidebar"
    /\ LET r == Sidebar(df, raw_df, selected_faculty, selected_prodi, clicked) IN
         /\ faculties' = r.faculties
         /\ prodis' = r.prodis
         /\ selected_faculty' = r.selected_faculty
         /\ selected_prodi' = r.selected_prodi
         /\ filtered_transformed' = r.filtered_transformed
         /\ filtered_raw' = r.filtered_raw
         /\ raw_df' = r.raw_df
         /\ metrics' = r.metrics
         /\ export' = r.export
         /\ error' = r.error
         /\ pc' = After(r.error, "overview")
    /\ UNCHANGED <<files, caches, df_raw, df, meta, warnings, clicked, infos, views, trigger>>

\* a tab: its placeholders are shown, or its exception ends the run
Tab(here, r, shown, next) ==
    /\ pc = here
    /\ error' = r.error
    /\ infos' = IF r.error = NoError THEN infos \cup r.infos ELSE infos
    /\ views' = IF r.error = NoError THEN [views EXCEPT ![here] = shown] ELSE views
    /\ pc' = After(r.error, next)
    /\ UNCHANGED <<files, caches, df_raw, raw_df, df, meta, warnings, widgets, sidebarOut,
                   trigger>>

OverviewStep ==
    Tab("overview", Overview(df, meta, raw_df, selected_faculty, selected_prodi),
        OverviewShown(df, meta), "perf")

PerfStep ==
    Tab("perf", Perf(df, meta, selected_faculty, selected_prodi),
        PerfShown(df, meta), "sat")

SatStep ==
    Tab("sat", Sat(df, selected_faculty, selected_prodi), [shown |-> TRUE], "prob")

ProbStep ==
    Tab("prob", Prob(df, meta, selected_faculty, selected_prodi),
        ProbShown(df, get_filtered_df(df, selected_faculty, selected_prodi), meta), "prio")

PrioStep ==
    Tab("prio", Prio(df, meta, selected_faculty, selected_prodi),
        PrioShown(df, get_filtered_df(df, selected_faculty, selected_prodi), meta), "done")

\* a widget event: Streamlit runs the script again from the top, in a fresh
\* namespace, with the caches kept
Rerun ==
    /\ pc \in {"done", "crashed"}
    /\ pc' = "load_transformed"
    /\ df_raw' = EmptyFrame /\ raw_df' = EmptyFrame
    /\ df' = EmptyFrame /\ meta' = EmptyMeta
    /\ warnings' = <<>> /\ infos' = {} /\ error' = NoError
    /\ faculties' = <<>> /\ prodis' = <<>>
    /\ filtered_transformed' = EmptyFrame /\ filtered_raw' = EmptyFrame
    /\ metrics' = <<>> /\ export' = NoExport
    /\ views' = NotShown
    /\ UNCHANGED files

\* the user picks another faculty among the options shown
SelectFaculty ==
    /\ \E k \in 1..Len(faculties) :
          /\ faculties[k] # selected_faculty
          /\ selected_faculty' = faculties[k]
    /\ clicked' = FALSE
    /\ trigger' = "filter"
    /\ UNCHANGED <<selected_prodi, caches>>
    /\ Rerun

\* the user picks another study program among the options shown
SelectProdi ==
    /\ \E k \in 1..Len(prodis) :
          /\ prodis[k] # selected_prodi
          /\ selected_prodi' = prodis[k]
    /\ clicked' = FALSE
    /\ trigger' = "filter"
    /\ UNCHANGED <<selected_faculty, caches>>
    /\ Rerun

\* the user presses "Download filtered CSV" (shown at the end of the sidebar)
ClickDownload ==
    /\ metrics # <<>>
    /\ ~clicked
    /\ clicked' = TRUE
    /\ trigger' = "button"
    /\ UNCHANGED <<selected_faculty, selected_prodi, caches>>
    /\ Rerun

\* the user clears the cache ("Clear cache" of the app menu) and the script
\* runs again: both st.cache_data entries are gone, the widgets keep their
\* values
ClearCache ==
    /\ cache_transformed' = NoEntry /\ cache_raw' = NoEntry
    /\ clicked' = FALSE
    /\ trigger' = "clear"
    /\ UNCHANGED <<selected_faculty, selected_prodi>>
    /\ Rerun

Init ==
    /\ pc = "load_transformed"
    /\ fs_transformed \in {FileFails(e) : e \in ReadErrors}
                          \cup {FileOk(t) : t \in TransformedTables}
    /\ fs_raw \in {FileFails("FileNotFoundError")} \cup {FileOk(t) : t \in RawTables}
    /\ cache_transformed = NoEntry /\ cache_raw = NoEntry
    /\ df_raw = EmptyFrame /\ raw_df = EmptyFrame
    /\ df = EmptyFrame /\ meta = EmptyMeta
    /\ warnings = <<>> /\ infos = {} /\ error = NoError
    /\ selected_faculty = All /\ selected_prodi = All /\ clicked = FALSE
    /\ faculties = <<>> /\ prodis = <<>>
    /\ filtered_transformed = EmptyFrame /\ filtered_raw = EmptyFrame
    /\ metrics = <<>> /\ export = NoExport
    /\ views = NotShown /\ trigger = "start"

Next ==
    \/ LoadTransformed \/ LoadRaw \/ Prepare \/ SidebarStep
    \/ OverviewStep \/ PerfStep \/ SatStep \/ ProbStep \/ PrioStep
    \/ SelectFaculty \/ SelectProdi \/ ClickDownload \/ ClearCache

Spec == Init /\ [][Next]_vars

\* prepare_transformed applied to each input table
InitPrepare ==
    /\ pc = "prepare"
    /\ df_raw \in PrepareInputs
    /\ fs_transformed = FileOk(df_raw)
    /\ fs_raw = FileFails("FileNotFoundError")
    /\ cache_transformed = [hit |-> TRUE, value |-> df_raw, warned |-> <<>>]
    /\ cache_raw = NoEntry
    /\ raw_df = EmptyFrame
    /\ df = EmptyFrame /\ meta = EmptyMeta
    /\ warnings = <<>> /\ infos = {} /\ error = NoError
    /\ selected_faculty = All /\ selected_prodi = All /\ clicked = FALSE
    /\ faculties = <<>> /\ prodis = <<>>
    /\ filtered_transformed = EmptyFrame /\ filtered_raw = EmptyFrame
    /\ metrics = <<>> /\ export = NoExport
    /\ views = NotShown /\ trigger = "start"

SpecPrepare == InitPrepare /\ [][Prepare]_vars

\* =========================================================== properties
\* the cell of row i of table t in the column called name
CellAt(t, i, name) == t.rows[i][ColIdx(t, name)]

\* a selected indicator as the specification defines it: numeric 1, boolean
\* true, or one of the strings "1", "true", "True", "TRUE"
Truthy(c) ==
    \/ c.t = "int" /\ c.n = 1
    \/ c.t = "bool" /\ c.n = 1
    \/ c.t = "str" /\ c.s \in {<<"1">>, <<"true">>, <<"True">>, <<"TRUE">>}

\* a column name without its group prefix, whatever the case of the prefix
DePrefixed(g, c) ==
    IF StartsWith(Lower(c), Lower(GroupPrefix(g)))
    THEN SubSeq(c, Len(GroupPrefix(g)) + 1, Len(c))
    ELSE c

Prepared == pc = "sidebar"

\* a table object with at least one column and one row
HasData(t) == t.kind = "DataFrame" /\ t.cols # <<>> /\ t.rows # <<>>

\* C1: in every detected group, a row with exactly one truthy indicator
\* gets, as its derived value, the name of that column without the group
\* prefix, also when the column was admitted by the case-insensitive rule.
C1_DecodeRoundTrip ==
    Prepared /\ HasData(df_raw) =>
        \A g \in Groups :
            LET gc == GroupColsOf(meta, g) IN
            \A i \in 1..NRows(df) : \A k \in 1..Len(gc) :
                (/\ Truthy(CellAt(df, i, gc[k]))
                 /\ \A m \in 1..Len(gc) : m # k => ~Truthy(CellAt(df, i, gc[m])))
                => CellAt(df, i, DerivedName(g)) = StrCell(DePrefixed(g, gc[k]))

\* C2: a row with no truthy indicator in a detected group gets a missing
\* value (problem, improvement_priority) or "Unknown" (faculty,
\* study_program), never the name of a column of the group.
C2_NoSelectionDefault ==
    Prepared /\ HasData(df_raw) =>
        \A g \in Groups :
            LET gc == GroupColsOf(meta, g) IN
            \A i \in 1..NRows(df) :
                (gc # <<>> /\ \A k \in 1..Len(gc) : ~Truthy(CellAt(df, i, gc[k])))
                => IF g \in {"problem", "improvement_priority"}
                   THEN IsNa(CellAt(df, i, DerivedName(g)))
                   ELSE CellAt(df, i, DerivedName(g)) = StrCell(<<"Unknown">>)

\* C3: for a non-empty raw table, normalization keeps the number of rows
\* and their order (row i keeps the cells of raw row i, the derived columns
\* are added after them) and leaves the raw table as it was.
C3_RowsPreserved ==
    [][(pc = "prepare" /\ HasData(df_raw)) =>
          /\ NRows(df') = NRows(df_raw)
          /\ \A i \in 1..NRows(df_raw) : \A j \in 1..Len(df_raw.cols) :
                 i <= NRows(df') => df'.rows[i][j] = df_raw.rows[i][j]
          /\ df_raw' = df_raw]_vars

C3_Witness ==
    /\ Prepared
    /\ NRows(df) = MaxRows
    /\ df_raw.rows[1] # df_raw.rows[2]
    /\ \E i \in 1..NRows(df) : IsNa(CellAt(df, i, <<"main_problem">>))

\* C4: an empty table, or None, gives an empty canonical table and a
\* metadata record whose four lists and rename map are empty.
C4_EmptyInput ==
    Prepared /\ ~HasData(df_raw) =>
        /\ df = EmptyFrame
        /\ meta.faculty_cols = <<>> /\ meta.prodi_cols = <<>>
        /\ meta.problem_cols = <<>> /\ meta.priority_cols = <<>>
        /\ meta.renamed = <<>>

C4_Witness ==
    /\ Prepared
    /\ df_raw.kind = "DataFrame"
    /\ Len(df_raw.cols) > 0 /\ NRows(df_raw) = 0

\* C8: a text lost-course label gives lost_courses = true exactly for
\* "true", "1", "yes", "y" (whatever the case), false for any other text.
C8_LostCoursesText ==
    (Prepared /\ HasCol(df, lost_courses_lbl)) =>
        \A i \in 1..NRows(df) :
            CellAt(df, i, lost_courses_lbl).t = "str" =>
                CellAt(df, i, <<"lost_courses">>) =
                    BoolCell(Lower(CellAt(df, i, lost_courses_lbl).s)
                                 \in {<<"true">>, <<"1">>, <<"yes">>, <<"y">>})

\* C9: the label "Ya" gives lost_courses = true, the label "Tidak" false.
C9_YaTidak ==
    (Prepared /\ HasCol(df, lost_courses_lbl)) =>
        \A i \in 1..NRows(df) :
            /\ CellAt(df, i, lost_courses_lbl) = StrCell(<<"Ya">>)
                   => CellAt(df, i, <<"lost_courses">>) = BoolCell(TRUE)
            /\ CellAt(df, i, lost_courses_lbl) = StrCell(<<"Tidak">>)
                   => CellAt(df, i, <<"lost_courses">>) = BoolCell(FALSE)

\* ------------------------------------------------- the running script
\* what a loader's body must leave behind: its table, the warnings shown
\* before and after it, and where the script stands after it
LoaderOutcome(fs, path, table, before, after, pcAfter) ==
    /\ pcAfter # "crashed"
    /\ IF fs.ok
       THEN table = fs.data /\ after = before
       ELSE /\ table.cols = <<>> /\ table.rows = <<>>
            /\ Len(after) = Len(before) + 1
            /\ SubSeq(after, 1, Len(before)) = before
            /\ after[Len(after)].path = path
            /\ after[Len(after)].error = fs.err

\* C5: a loader whose read fails returns a table with no rows and no
\* columns, shows exactly one warning naming the path and the error, and
\* raises nothing; a loader whose read succeeds returns the parsed table
\* and shows no warning.  Both loaders, whenever their body runs.
C5_LoaderContract ==
    [][/\ (pc = "load_transformed" /\ ~cache_transformed.hit) =>
              LoaderOutcome(fs_transformed, transformed_path, df_raw',
                            warnings, warnings', pc')
       /\ (pc = "load_raw" /\ ~cache_raw.hit) =>
              LoaderOutcome(fs_raw, raw_path, raw_df',
                            warnings, warnings', pc')]_vars

C5_Witness ==
    /\ pc = "prepare"
    /\ ~fs_transformed.ok /\ fs_raw.ok
    /\ df_raw = EmptyFrame /\ raw_df = fs_raw.data
    /\ Len(warnings) = 1 /\ warnings[1].path = transformed_path

AfterSidebar == {"overview", "perf", "sat", "prob", "prio", "done"}

LoadFailed == ~fs_transformed.ok \/ ~fs_raw.ok

\* the placeholders of the views that read the transformed table
TransformedPlaceholders ==
    {"No transformed data found for descriptive statistics.",
     "Faculty one-hot columns not found in dataset.",
     "Login duration column not found.",
     "Login errors column not found.",
     "ACC waiting column or faculty columns not available for this chart.",
     "No performance metrics found for summary table.",
     "Overall satisfaction column not found.",
     "Ease of access column not found.",
     "No numeric columns detected for correlation.",
     "No problem columns found in dataset.",
     "No improvement priority information found."}

\* C6: when a load failed, a render reaches its end without an exception,
\* the faculty and program selectboxes offer "All" only, and the views
\* whose data is missing show their placeholder or "N/A".
C6_DegradesWithoutData ==
    LoadFailed =>
        /\ pc # "crashed"
        /\ (pc \in AfterSidebar) => (faculties = <<All>> /\ prodis = <<All>>)
        /\ (pc = "done" /\ ~fs_raw.ok) =>
               /\ "Raw dataset not available for preview." \in infos
               /\ metrics[1] = 0
        /\ (pc = "done" /\ ~fs_transformed.ok) => TransformedPlaceholders \subseteq infos

\* exceptions raised by a value of the raw table
RawDataErrors == {"TypeError line 359", "TypeError line 365"}

\* C7: with a non-empty transformed table, whatever its columns and
\* values, no render ends in an exception raised by normalization, by the
\* filter options or by a tab's computation over the canonical table.
C7_NoCrashOnAnyTable ==
    (fs_transformed.ok /\ ~IsEmpty(fs_transformed.data)) =>
        (pc = "crashed" => error \in RawDataErrors)

ViewSteps == {"sidebar", "overview", "perf", "sat", "prob", "prio"}

\* C10: the sidebar (its filters, the numeric conversion of the raw
\* columns, the export) and every tab leave the canonical table, the
\* detection metadata and the loaded raw table as normalization left them.
C10_TablesUntouched ==
    [][(pc \in ViewSteps) => (df' = df /\ meta' = meta /\ raw_df' = raw_df)]_vars

C10_Witness ==
    /\ pc = "done"
    /\ selected_faculty = All /\ selected_prodi # All
    /\ NRows(filtered_transformed) < NRows(df)
    /\ ~IsEmpty(raw_df) /\ filtered_raw # raw_df
    /\ export # NoExport

\* ------------------------------------------------------ the aggregates
\* the same float: both NaN, or the same quotient
RatSame(a, b) ==
    IF a.den = 0 \/ b.den = 0 THEN a.den = b.den
    ELSE a.num * b.den = b.num * a.den

\* a cell matches a selection: "All" matches every cell, a missing value
\* matches no selected value
Selected(c, selection) == selection = All \/ (~IsNa(c) /\ c = selection)

RowSelected(r) ==
    /\ selected_faculty # All =>
           (HasCol(df, faculty_col) /\ Selected(r[ColIdx(df, faculty_col)], selected_faculty))
    /\ selected_prodi # All =>
           (HasCol(df, study_program_col)
            /\ Selected(r[ColIdx(df, study_program_col)], selected_prodi))

\* the rows of the canonical table that match the current selection
SelectedRows == Frame(df.cols, SelectSeq(df.rows, RowSelected))

SameMeans(A, B) ==
    /\ \A a \in A : \E b \in B : a.Faculty = b.Faculty /\ RatSame(a.MeanACC, b.MeanACC)
    /\ \A b \in B : \E a \in A : a.Faculty = b.Faculty /\ RatSame(a.MeanACC, b.MeanACC)

SameSeverity(A, B) ==
    /\ Len(A) = Len(B)
    /\ \A k \in 1..Len(A) :
           /\ A[k].Problem = B[k].Problem /\ A[k].Count = B[k].Count
           /\ RatSame(A[k].AvgSatisfaction, B[k].AvgSatisfaction)
           /\ RatSame(A[k].SeverityScore, B[k].SeverityScore)

SameMatrix(A, B) ==
    /\ Len(A) = Len(B)
    /\ \A f \in 1..Len(A) :
           /\ A[f].Faculty = B[f].Faculty /\ Len(A[f].cells) = Len(B[f].cells)
           /\ \A p \in 1..Len(A[f].cells) : RatSame(A[f].cells[p], B[f].cells[p])

SameOverview(a, b) ==
    /\ RatSame(a.lost_courses_rate, b.lost_courses_rate)
    /\ a.fac_df = b.fac_df

SamePerf(a, b) == a.chart = b.chart /\ SameMeans(a.acc_means, b.acc_means)

SameProb(a, b) ==
    /\ a.prob_counts = b.prob_counts /\ a.total_reports = b.total_reports
    /\ SameSeverity(a.severity_records, b.severity_records)
    /\ SameMatrix(a.fac_matrix, b.fac_matrix)

SamePrio(a, b) ==
    /\ a.pr_counts = b.pr_counts
    /\ a.matrix = b.matrix /\ SameMatrix(a.fac_pr_mat, b.fac_pr_mat)

\* C11: every aggregate a tab shows (lost-course rate, distribution by
\* faculty, ACC wait by faculty, problem counts, severity, problem by
\* faculty, priority counts, priority by faculty) is the aggregate of the
\* rows of the canonical table that match the selected faculty and program.
C11_AggregatesOverSelection ==
    /\ views.overview.shown =>
           SameOverview(views.overview, OverviewShown(SelectedRows, meta))
    /\ views.perf.shown => SamePerf(views.perf, PerfShown(SelectedRows, meta))
    /\ views.prob.shown =>
           SameProb(views.prob, ProbShown(SelectedRows, SelectedRows, meta))
    /\ views.prio.shown =>
           SamePrio(views.prio, PrioShown(SelectedRows, SelectedRows, meta))

\* ------------------------------------------------------------ the export
\* the rows r with (selection = "All" or r.column = selection), a missing
\* value being a value like any other
RowSelectedLiterally(r) ==
    /\ selected_faculty # All =>
           (HasCol(df, faculty_col) /\ r[ColIdx(df, faculty_col)] = selected_faculty)
    /\ selected_prodi # All =>
           (HasCol(df, study_program_col)
            /\ r[ColIdx(df, study_program_col)] = selected_prodi)

Exported == pc \in AfterSidebar /\ clicked

\* C12: the exported content holds exactly the canonical rows r with
\* (faculty "All" or r.faculty = selected faculty) and (program "All" or
\* r.study_program = selected program), in canonical order, under the
\* columns of the canonical table and no other.
C12_ExportLiteral ==
    Exported =>
        export = ToCsv(Frame(df.cols, SelectSeq(df.rows, RowSelectedLiterally)))

\* ------------------------------------------------- loaders and normalizer
\* the body of a loader runs: the call finds no entry in its cache
LoaderBodyRuns ==
    \/ (LoadTransformed /\ ~cache_transformed.hit)
    \/ (LoadRaw /\ ~cache_raw.hit)

\* the loaders alone: in a run started by a filter change the body of
\* neither loader runs
LoadersRunOncePerCache ==
    [][(trigger = "filter") => ~LoaderBodyRuns]_vars

\* C13: the file read and prepare_transformed execute only in the run of
\* the process start or in the run after a cache clear; in a run started by
\* a user filter change neither of them executes.
C13_RunOnlyAfterStartOrClear ==
    [][(trigger = "filter") => ~(LoaderBodyRuns \/ Prepare)]_vars

\* ------------------------------------------------------------- severity
\* the selected rows that have the indicator of a problem set
SelectedProblem(pcol) ==
    SelectSeq(SelectedRows.rows,
              LAMBDA r : r[ColIdx(df, pcol)].t \in {"int", "bool"}
                         /\ r[ColIdx(df, pcol)].n = 1)

\* the satisfaction values present among rows of the canonical table
SatisfactionOf(rows) ==
    IF HasCol(df, overall_satisfaction_std)
    THEN SelectSeq([i \in 1..Len(rows) |-> rows[i][ColIdx(df, overall_satisfaction_std)]],
                   LAMBDA c : ~IsNa(c))
    ELSE <<>>

ProblemsShown == views.prob.shown /\ views.prob.one_hot

\* C14: for every detected problem column the severity shown equals
\* (5 - mean satisfaction of the filtered rows that selected the problem)
\* * (number of those rows / total_reports), and is exactly 0 when that mean
\* is undefined: no filtered row selected the problem, the satisfaction
\* column is absent, or the satisfaction of all those rows is missing.
C14_SeverityFormula ==
    ProblemsShown =>
        /\ Len(views.prob.severity_records) = Len(meta.problem_cols)
        /\ \A k \in 1..Len(meta.problem_cols) :
               LET rec == views.prob.severity_records[k]
                   cnt == Len(SelectedProblem(meta.problem_cols[k]))
                   sat == SatisfactionOf(SelectedProblem(meta.problem_cols[k]))
               IN  /\ rec.Count = cnt
                   /\ IF sat = <<>>
                      THEN rec.SeverityScore = ZeroRat
                      ELSE RatSame(rec.SeverityScore,
                                   Rat((5 * Len(sat) - SumOf(sat)) * cnt,
                                       Len(sat) * views.prob.total_reports))

\* one problem with a defined mean and a share below 1, another one whose
\* reporters all left the satisfaction blank
C14_Witness ==
    /\ ProblemsShown
    /\ \E k \in 1..Len(views.prob.severity_records) :
           /\ views.prob.severity_records[k].AvgSatisfaction.den # 0
           /\ views.prob.severity_records[k].SeverityScore.num # 0
           /\ views.prob.severity_records[k].Count < views.prob.total_reports
    /\ \E k \in 1..Len(views.prob.severity_records) :
           /\ views.prob.severity_records[k].Count > 0
           /\ views.prob.severity_records[k].AvgSatisfaction.den = 0
           /\ views.prob.severity_records[k].SeverityScore = ZeroRat

\* the sum over the problems of the reporter count of the severity record
ReporterSum ==
    SumOf([k \in 1..Len(views.prob.severity_records) |->
              IntCell(views.prob.severity_records[k].Count)])

\* C15: total_reports is the sum over all detected problem columns of the
\* reporter count used as numerator of the severity, and 1 when that sum is
\* zero; so the shares reporter count / total_reports sum to 1 whenever a
\* problem was reported.
C15_TotalReports ==
    ProblemsShown =>
        /\ views.prob.total_reports = (IF ReporterSum > 0 THEN ReporterSum ELSE 1)
        /\ ReporterSum > 0 =>
               RatSame(Rat(ReporterSum, views.prob.total_reports), Rat(1, 1))

\* a <= b for two defined values
RatLeq(a, b) == a.num * b.den <= b.num * a.den

\* the severity of a record had `more` further rows reported its problem,
\* the mean satisfaction of its reporters and the counts of the other
\* problems being the same
SeverityWithMore(rec, more) ==
    SeverityScore(rec.AvgSatisfaction, rec.Count + more,
                  IF views.prob.counted THEN views.prob.total_reports + more
                  ELSE views.prob.total_reports)

\* C16: for every problem and every value the mean satisfaction of its
\* reporters takes in the data, the severity does not decrease when the
\* reporter count of the problem increases, the mean and the counts of the
\* other problems held fixed.
C16_SeverityMonotone ==
    ProblemsShown =>
        \A k \in 1..Len(views.prob.severity_records) :
            views.prob.severity_records[k].AvgSatisfaction.den # 0 =>
                \A more \in 1..MaxRows :
                    RatLeq(views.prob.severity_records[k].SeverityScore,
                           SeverityWithMore(views.prob.severity_records[k], more))

\* ------------------------------------------------- percentage matrices
\* the rows of the canonical table that have a faculty column set to true
FacultyRows(fcol) ==
    SelectSeq(df.rows, LAMBDA r : r[ColIdx(df, fcol)].t \in {"int", "bool"}
                                  /\ r[ColIdx(df, fcol)].n = 1)

\* the values present in an inner column over rows of the canonical table
InnerValues(rows, pcol) ==
    SelectSeq([i \in 1..Len(rows) |-> rows[i][ColIdx(df, pcol)]], LAMBDA c : ~IsNa(c))

\* a percentage matrix holds, for a faculty without rows, 0.0 in every
\* cell, and otherwise 100 times the mean of the inner column over the rows
\* of the faculty
PercentagesByFaculty(matrix, inner_cols) ==
    /\ Len(matrix) = Len(meta.faculty_cols)
    /\ \A f \in 1..Len(matrix) :
           /\ Len(matrix[f].cells) = Len(inner_cols)
           /\ \A p \in 1..Len(inner_cols) :
                  IF FacultyRows(meta.faculty_cols[f]) = <<>>
                  THEN matrix[f].cells[p] = ZeroRat
                  ELSE RatSame(matrix[f].cells[p],
                               Rat(100 * SumOf(InnerValues(FacultyRows(meta.faculty_cols[f]),
                                                           inner_cols[p])),
                                   Len(InnerValues(FacultyRows(meta.faculty_cols[f]),
                                                   inner_cols[p]))))

\* C17: in the problem-by-faculty and the priority-by-faculty matrix every
\* cell of a faculty column that no row has set to true is exactly 0.0, not
\* NaN and not an error; for a faculty with at least one row the cell is 100
\* times the mean of the inner indicator column over the rows of the faculty.
C17_MatrixCells ==
    /\ (views.prob.shown /\ views.prob.matrix) =>
           PercentagesByFaculty(views.prob.fac_matrix, meta.problem_cols)
    /\ (views.prio.shown /\ views.prio.matrix) =>
           PercentagesByFaculty(views.prio.fac_pr_mat, meta.priority_cols)

\* both matrices shown, one faculty without rows, another with a cell of 50
C17_Witness ==
    /\ views.prob.shown /\ views.prob.matrix
    /\ views.prio.shown /\ views.prio.matrix
    /\ \E f \in 1..Len(meta.faculty_cols) :
           /\ FacultyRows(meta.faculty_cols[f]) = <<>>
           /\ \A p \in 1..Len(meta.problem_cols) : views.prob.fac_matrix[f].cells[p] = ZeroRat
           /\ \A p \in 1..Len(meta.priority_cols) : views.prio.fac_pr_mat[f].cells[p] = ZeroRat
    /\ \E f \in 1..Len(meta.faculty_cols) : \E p \in 1..Len(meta.problem_cols) :
           RatSame(views.prob.fac_matrix[f].cells[p], Rat(50, 1))

\* ------------------------------------------------------ the decode paths
\* the columns of a group that are truthy in row i, by position
TruthyAt(gc, i) == {k \in 1..Len(gc) : Truthy(CellAt(df, i, gc[k]))}

\* the first-truthy scan of a group applied to the prepared table
ScanPath(g, gc) ==
    IF g \in {"faculty", "study_program"}
    THEN DecodeFirstBool(df, gc, GroupPrefix(g))
    ELSE DecodeFirstPicked(df, gc, GroupPrefix(g))

\* a row with several truthy indicators gets the name, without the prefix,
\* of the first truthy column of the group
FirstOfSeveral ==
    \A g \in Groups :
        LET gc == GroupColsOf(meta, g) IN
        \A i \in 1..NRows(df) :
            Cardinality(TruthyAt(gc, i)) > 1 =>
                CellAt(df, i, DerivedName(g)) =
                    StrCell(DePrefixed(g, gc[CHOOSE k \in TruthyAt(gc, i) :
                                                \A m \in TruthyAt(gc, i) : k <= m]))

\* on 0/1 or boolean indicators, where the maximum-per-row path decodes, the
\* first-truthy scan gives every row the same value
PathsAgree ==
    \A g \in Groups :
        LET gc == GroupColsOf(meta, g) IN
        (gc # <<>> /\ ~IdxmaxRaises(df, gc)) =>
            \A i \in 1..NRows(df) :
                CellAt(df, i, DerivedName(g)) = ScanPath(g, gc)[i]

\* C18: a row with more than one truthy column of a detected group gets the
\* name (prefix stripped) of the first truthy column in the group's column
\* order, on the maximum-per-row path and on the first-truthy scan, and the
\* two paths give the same value for every row of 0/1 or boolean indicators.
C18_FirstTruthyOnBothPaths ==
    Prepared /\ HasData(df_raw) => FirstOfSeveral /\ PathsAgree

\* the value the first-truthy scan gives a row when a column counts as
\* selected exactly when its value is truthy
ScanOfTruthy(g, gc, i) ==
    IF TruthyAt(gc, i) = {}
    THEN (IF g \in {"faculty", "study_program"} THEN StrCell(<<"Unknown">>) ELSE NoneCell)
    ELSE StrCell(Replace(gc[CHOOSE k \in TruthyAt(gc, i) : \A m \in TruthyAt(gc, i) : k <= m],
                         GroupPrefix(g)))

\* C19: in the first-truthy scan, for each of the four groups, a column
\* counts as selected for a row exactly when its value is numeric 1, boolean
\* true or one of the strings "1", "true", "True", "TRUE"; no other value
\* (such as "0", "False" or another number) counts as selected.
C19_ScanTruthySet ==
    Prepared /\ HasData(df_raw) =>
        \A g \in Groups :
            LET gc == GroupColsOf(meta, g) IN
            (gc # <<>> /\ IdxmaxRaises(df, gc)) =>
                \A i \in 1..NRows(df) :
                    CellAt(df, i, DerivedName(g)) = ScanOfTruthy(g, gc, i)

\* ------------------------------------------------ singular columns
\* the positions of the columns of the raw table whose lower-cased name
\* contains one of the words
NamedLike(words) ==
    {j \in 1..Len(df_raw.cols) : \E w \in words : Contains(Lower(df_raw.cols[j]), <<w>>)}

\* the raw value of the first such column, "Unknown" when there is none
FirstNamedLike(words, i) ==
    IF NamedLike(words) = {} THEN StrCell(<<"Unknown">>)
    ELSE df_raw.rows[i][CHOOSE j \in NamedLike(words) : \A m \in NamedLike(words) : j <= m]

\* C20: when no one-hot faculty (program) column is detected, the derived
\* faculty (study_program) of every row is the raw value of the first
\* column, in table order, whose name contains "fakultas" or "faculty"
\* ("prodi" or "study") case-insensitively, and "Unknown" for every row
\* when there is no such column.
C20_SingularFallback ==
    Prepared /\ HasData(df_raw) =>
        /\ meta.faculty_cols = <<>> =>
               \A i \in 1..NRows(df) :
                   CellAt(df, i, faculty_col) = FirstNamedLike({"fakultas", "faculty"}, i)
        /\ meta.prodi_cols = <<>> =>
               \A i \in 1..NRows(df) :
                   CellAt(df, i, study_program_col) = FirstNamedLike({"prodi", "study"}, i)

\* two faculty-like and two program-like columns that differ in a row, the
\* names matching in another case only
C20_Witness ==
    /\ Prepared /\ HasData(df_raw)
    /\ meta.faculty_cols = <<>> /\ meta.prodi_cols = <<>>
    /\ Cardinality(NamedLike({"fakultas", "faculty"})) = 2
    /\ Cardinality(NamedLike({"prodi", "study"})) = 2
    /\ \E i \in 1..NRows(df) :
           /\ CellAt(df, i, faculty_col) = df_raw.rows[i][1]
           /\ df_raw.rows[i][1] # df_raw.rows[i][2]
           /\ CellAt(df, i, study_program_col) = df_raw.rows[i][3]
           /\ df_raw.rows[i][3] # df_raw.rows[i][4]

\* ------------------------------------------- the long lost-course label
\* C21: the branch of prepare_transformed that reads the long-form
\* lost-course column (and on its failure path coerces the first column of
\* the table) is never taken: after the rename no column bears the long
\* name, a column that bore it is lost_courses_lbl; so lost_courses is
\* derived, row by row, from lost_courses_lbl when that column exists (by
\* one of the two conversions of that branch) and is false for every row
\* otherwise.
C21_LongLabelBranchDead ==
    Prepared /\ HasData(df_raw) =>
        /\ ~HasCol(df, lbl_long)
        /\ HasCol(df_raw, lbl_long) =>
               /\ HasCol(df, lost_courses_lbl)
               /\ ColIdx(df, lost_courses_lbl) = ColIdx(df_raw, lbl_long)
        /\ \A i \in 1..NRows(df) :
               IF HasCol(df, lost_courses_lbl)
               THEN CellAt(df, i, lost_courses_col)
                        \in { BoolCell(PyBool(CellAt(df, i, lost_courses_lbl))),
                              BoolCell(IsYesText(CellAt(df, i, lost_courses_lbl))) }
               ELSE CellAt(df, i, lost_courses_col) = BoolCell(FALSE)

\* the long-form column came second in the file, and the value derived
\* from it is not the one the coercion of the first column would give
C21_Witness ==
    /\ Prepared /\ HasData(df_raw)
    /\ HasCol(df_raw, lbl_long) /\ ColIdx(df_raw, lbl_long) = 2
    /\ HasCol(df, lost_courses_lbl) /\ ~HasCol(df, lbl_long)
    /\ CellAt(df, 1, lost_courses_col) # BoolCell(IsYesText(df.rows[1][1]))

=============================================================================
